---- MODULE Spec2Model ----
(***************************************************************************)
(* A model of lp_monitor.py (class LPMonitor): the position differ         *)
(* (compare_positions, calculate_position_hash), the report formatter      *)
(* (format_change_message) and the orchestrator (monitor), with the Dune   *)
(* API, the Telegram bot and git as nondeterministic environments.         *)
(*                                                                         *)
(* JSON values.  A field of a row is a JSON value whose Python type        *)
(* matters to the code (str(), float(), isinstance(.., str), "in").  A     *)
(* value is a record [k, n, s]: k = "num" is the integer n, k = "str" is   *)
(* the string whose characters are the sequence s, k = "absent" is a key   *)
(* the row does not have.  Strings are sequences of one-character strings. *)
(***************************************************************************)
EXTENDS Integers, Sequences, FiniteSets

VARIABLES
    \* ---- monitor(): one invocation after another on the same lp_data/ ----
    pc,               \* position inside monitor()
    data_file,        \* lp_data/latest_positions.json
    history_file,     \* lp_data/history.json, its entries in order of their keys
    old_positions,    \* monitor's local
    new_positions,    \* monitor's local
    changes,          \* monitor's local
    i,                \* the status loop's counter in execute_dune_query
    message,          \* monitor's local
    success,          \* monitor's local: what send_telegram_message returned
    ret,              \* what monitor() returned, or that it raised
    \* ---- what the environment did in this run (observations) ----
    fetch_fault,      \* why the fetch failed in this run, "none" if it has not
    fetched,          \* the results request returned rows in this run
    persisted,        \* save_current_data returned in this run
    format_calls,     \* calls of format_change_message in this run
    notify_calls,     \* calls of send_telegram_message in this run
    publish_calls,    \* calls of commit_and_push_changes in this run
    publish_result,   \* how the last publish ended
    file_at_start,    \* data_file when the run started
    history_at_start, \* history_file when the run started
    prev_fetched,     \* the rows fetched by the latest earlier run that persisted
    prev_alert,       \* that run's notification: "none", "sent" or "failed"
    \* ---- compare_positions applied to drawn inputs ----
    d_old, d_new, d_result,
    \* ---- format_change_message applied to drawn inputs ----
    f_positions, f_message

mvars == <<pc, data_file, history_file, old_positions, new_positions, changes, i,
           message, success, ret, fetch_fault, fetched, persisted, format_calls,
           notify_calls, publish_calls, publish_result, file_at_start,
           history_at_start, prev_fetched, prev_alert>>
dvars == <<d_old, d_new, d_result>>
fvars == <<f_positions, f_message>>
vars  == <<mvars, dvars, fvars>>

(***************************************************************************)
(* Bounds of the model.                                                    *)
(***************************************************************************)
MaxRows    == 2   \* rows in one fetched result (monitor)
MaxHist    == 2   \* entries of history.json after which no further run starts
MaxDiffLen == 2   \* records on each side of a drawn diff
MaxFmtLen  == 6   \* current positions handed to the drawn formatter call

(***************************************************************************)
(* Python values and conversions.                                          *)
(***************************************************************************)
Num(n)  == [k |-> "num", n |-> n, s |-> <<>>]
Txt(s)  == [k |-> "str", n |-> 0, s |-> s]
Absent  == [k |-> "absent", n |-> 0, s |-> <<>>]

DigitChars == <<"0", "1", "2", "3", "4", "5", "6", "7", "8", "9">>
DigitSet   == {DigitChars[j] : j \in 1..10}
DigitVal(c) == (CHOOSE j \in 1..10 : DigitChars[j] = c) - 1

\* str(n) of a non-negative int
RECURSIVE Digits(_)
Digits(n) == IF n < 10 THEN <<DigitChars[n + 1]>>
             ELSE Digits(n \div 10) \o <<DigitChars[(n % 10) + 1]>>

\* str(v): an int prints its decimal digits, a str is itself
PyStr(v) == IF v.k = "num" THEN Digits(v.n) ELSE v.s

\* dict.get(key, default)
Get(p, f, default) == IF p[f].k = "absent" THEN default ELSE p[f]

IsDigits(s) == Len(s) > 0 /\ \A j \in 1..Len(s) : s[j] \in DigitSet

RECURSIVE DigitsVal(_)
DigitsVal(s) == IF s = <<>> THEN 0
                ELSE DigitsVal(SubSeq(s, 1, Len(s) - 1)) * 10 + DigitVal(s[Len(s)])

RECURSIVE Pow10(_)
Pow10(x) == IF x = 0 THEN 1 ELSE 10 * Pow10(x - 1)

Unsigned(s) == IF Len(s) > 0 /\ s[1] = "+" THEN Tail(s) ELSE s

\* float(s) of a str over the alphabet digits, "+", "e", "x": [+]digits or
\* [+]digits e [+]digits is a number, anything else raises ValueError.
FloatOfStr(s) ==
    LET es == {j \in 1..Len(s) : s[j] = "e"}
    IN  IF IsDigits(Unsigned(s))
        THEN [ok |-> TRUE, val |-> DigitsVal(Unsigned(s))]
        ELSE IF Cardinality(es) = 1
        THEN LET j == CHOOSE x \in es : TRUE
                 m == Unsigned(SubSeq(s, 1, j - 1))
                 x == Unsigned(SubSeq(s, j + 1, Len(s)))
             IN  IF IsDigits(m) /\ IsDigits(x)
                 THEN [ok |-> TRUE, val |-> DigitsVal(m) * Pow10(DigitsVal(x))]
                 ELSE [ok |-> FALSE, val |-> 0]
        ELSE [ok |-> FALSE, val |-> 0]

\* float(v): ok is FALSE where Python raises
PyFloat(v) == IF v.k = "num" THEN [ok |-> TRUE, val |-> v.n] ELSE FloatOfStr(v.s)

\* isinstance(v, str) and '+' in v
HasPlus(v) == v.k = "str" /\ \E j \in 1..Len(v.s) : v.s[j] = "+"

(***************************************************************************)
(* Rows.                                                                   *)
(***************************************************************************)
Pos(tid, liq, a0, a1, usd, lo, up, st) ==
    [tokenId |-> tid, liquidity_L |-> liq, amount0 |-> a0, amount1 |-> a1,
     usd_value |-> usd, p_lower_uset |-> lo, p_upper_uset |-> up, status |-> st]

ACTIVE       == Txt(<<"A", "C", "T", "I", "V", "E">>)
OUT_OF_RANGE == Txt(<<"O", "U", "T">>)
UNKNOWN      == Txt(<<"U", "N", "K", "N", "O", "W", "N">>)

SeqsUpTo(S, n) == UNION {[1..m -> S] : m \in 0..n}

\* every order in which a set can be iterated
Orders(S) == {f \in [1..Cardinality(S) -> S] : \A a, b \in 1..Cardinality(S) : f[a] = f[b] => a = b}

(***************************************************************************)
(* calculate_position_hash: md5 of the five fields' string forms joined by *)
(* "-".  md5 is modelled as collision-free: the digest is the tagged text. *)
(***************************************************************************)
RECURSIVE Join(_)
Join(fields) == IF Len(fields) = 1 THEN fields[1]
                ELSE fields[1] \o <<"-">> \o Join(Tail(fields))

md5(text) == <<"md5", text>>

key_fields_dropping_usd(position) ==
    << PyStr(Get(position, "tokenId", Txt(<<>>))),
       PyStr(Get(position, "liquidity_L", Txt(<<>>))),
       PyStr(Get(position, "amount0", Txt(<<>>))),
       PyStr(Get(position, "amount1", Txt(<<>>))) >>

key_fields(position) ==
    << PyStr(Get(position, "tokenId", Txt(<<>>))),
       PyStr(Get(position, "liquidity_L", Txt(<<>>))),
       PyStr(Get(position, "amount0", Txt(<<>>))),
       PyStr(Get(position, "amount1", Txt(<<>>))),
       PyStr(Get(position, "usd_value", Txt(<<>>))) >>

calculate_position_hash(position) == md5(Join(key_fields(position)))

(***************************************************************************)
(* compare_positions.  p['tokenId'] raises KeyError on a row without the   *)
(* key; the dict comprehension keeps, for each key, the last row with it.  *)
(* The three loops iterate over sets of str, whose order Python does not   *)
(* fix: every order is a possible result.  The timestamp is left out.      *)
(***************************************************************************)
HasTokenId(p) == p.tokenId.k # "absent"

dict_key_raw(p) == <<p.tokenId.k, PyStr(p.tokenId)>>

\* str(p['tokenId'])
dict_key(p) == <<"str", PyStr(p.tokenId)>>

Keys(positions) == {dict_key(positions[j]) : j \in 1..Len(positions)}

LastIndex(positions, key) ==
    CHOOSE j \in 1..Len(positions) :
        /\ dict_key(positions[j]) = key
        /\ \A j2 \in (j + 1)..Len(positions) : dict_key(positions[j2]) # key

positions_dict(positions) ==
    [key \in Keys(positions) |-> positions[LastIndex(positions, key)]]

KeyErrorResult == [raised |-> TRUE, added |-> <<>>, removed |-> <<>>, modified |-> <<>>]

compare_positions(old, new) ==
    IF \E j \in 1..Len(old) : ~HasTokenId(old[j]) THEN {KeyErrorResult}
    ELSE IF \E j \in 1..Len(new) : ~HasTokenId(new[j]) THEN {KeyErrorResult}
    ELSE
    LET old_positions_dict == positions_dict(old)
        new_positions_dict == positions_dict(new)
        okeys == DOMAIN old_positions_dict
        nkeys == DOMAIN new_positions_dict
        mkeys == {key \in okeys \cap nkeys :
                     calculate_position_hash(old_positions_dict[key])
                       # calculate_position_hash(new_positions_dict[key])}
    IN  { [raised   |-> FALSE,
           added    |-> [j \in 1..Len(ao) |-> new_positions_dict[ao[j]]],
           removed  |-> [j \in 1..Len(ro) |-> old_positions_dict[ro[j]]],
           modified |-> [j \in 1..Len(mo) |-> [old |-> old_positions_dict[mo[j]],
                                               new |-> new_positions_dict[mo[j]]]]]
          : ao \in Orders(nkeys \ okeys), ro \in Orders(okeys \ nkeys), mo \in Orders(mkeys) }


(***************************************************************************)
(* format_change_message.  The message is kept as its structure: which     *)
(* entries each section lists, in which order, with which figures; the     *)
(* header's clock reading and the glyphs are left out.  Each entry of the  *)
(* current-state section carries the row it renders.  raised is TRUE where *)
(* a float(usd_value) the code evaluates raises.                           *)
(***************************************************************************)
Min(a, b) == IF a < b THEN a ELSE b
Take(seq, n) == SubSeq(seq, 1, Min(n, Len(seq)))

usd_of(pos) == PyFloat(Get(pos, "usd_value", Num(0)))

RECURSIVE SumUsd(_)
SumUsd(positions) == IF positions = <<>> THEN 0
                     ELSE usd_of(Head(positions)).val + SumUsd(Tail(positions))

UsdRaises(positions) == \E j \in 1..Len(positions) : ~usd_of(positions[j]).ok

\* format_price, nested in format_position_display
format_price(price) ==
    IF HasPlus(price) THEN [form |-> "infinity", val |-> 0, text |-> <<>>]
    ELSE IF PyFloat(price).ok
    THEN IF PyFloat(price).val > 1000000
         THEN [form |-> "scientific", val |-> PyFloat(price).val, text |-> <<>>]
         ELSE [form |-> "fixed4", val |-> PyFloat(price).val, text |-> <<>>]
    ELSE [form |-> "str", val |-> 0, text |-> PyStr(price)]

format_position_display(position) ==
    [row          |-> position,
     token_id     |-> PyStr(Get(position, "tokenId", Txt(<<>>))),
     usd_value    |-> usd_of(position).val,
     p_lower_str  |-> format_price(Get(position, "p_lower_uset", Num(0))),
     p_upper_str  |-> format_price(Get(position, "p_upper_uset", Num(0))),
     status_text  |-> IF Get(position, "status", UNKNOWN) = ACTIVE
                      THEN "ACTIVE" ELSE "OUT_OF_RANGE"]

\* a sort key is a float: inf, or a finite value
get_sort_key(pos) ==
    LET upper_price == Get(pos, "p_upper_uset", Num(0))
    IN  IF HasPlus(upper_price) THEN [inf |-> TRUE, val |-> 0]
        ELSE IF PyFloat(upper_price).ok
        THEN [inf |-> FALSE, val |-> PyFloat(upper_price).val]
        ELSE [inf |-> FALSE, val |-> 0]

KeyGE(a, b) == a.inf \/ (~b.inf /\ a.val >= b.val)

\* sorted(current_positions, key=get_sort_key) without reverse=True
RECURSIVE sorted_forward(_)
sorted_forward(positions) ==
    IF positions = <<>> THEN <<>>
    ELSE LET front == sorted_forward(SubSeq(positions, 1, Len(positions) - 1))
             last  == positions[Len(positions)]
             ahead == Cardinality({j \in 1..Len(front) :
                          KeyGE(get_sort_key(last), get_sort_key(front[j]))})
         IN  SubSeq(front, 1, ahead) \o <<last>> \o SubSeq(front, ahead + 1, Len(front))

\* sorted(current_positions, key=get_sort_key, reverse=True): a stable sort,
\* rows with equal keys keep the order of the input
RECURSIVE sorted_reverse(_)
sorted_reverse(positions) ==
    IF positions = <<>> THEN <<>>
    ELSE LET front == sorted_reverse(SubSeq(positions, 1, Len(positions) - 1))
             last  == positions[Len(positions)]
             ahead == Cardinality({j \in 1..Len(front) :
                          KeyGE(get_sort_key(front[j]), get_sort_key(last))})
         IN  SubSeq(front, 1, ahead) \o <<last>> \o SubSeq(front, ahead + 1, Len(front))

ShownPositions == 5

added_removed_section(list) ==
    [count    |-> Len(list),
     examples |-> [j \in 1..Len(Take(list, 3)) |->
                      [tokenId |-> PyStr(list[j].tokenId), usd_value |-> usd_of(list[j]).val]],
     more     |-> IF Len(list) > 3 THEN Len(list) - 3 ELSE 0]

modified_section(list) ==
    [count    |-> Len(list),
     examples |-> [j \in 1..Len(Take(list, 2)) |->
                      [tokenId   |-> PyStr(list[j].old.tokenId),
                       old_value |-> usd_of(list[j].old).val,
                       new_value |-> usd_of(list[j].new).val]],
     more     |-> IF Len(list) > 2 THEN Len(list) - 2 ELSE 0]

NoStats == [total_positions |-> 0, active_positions |-> 0, total_value |-> 0]
NoMessage == [built |-> FALSE, raised |-> FALSE,
              added |-> added_removed_section(<<>>),
              removed |-> added_removed_section(<<>>),
              modified |-> modified_section(<<>>),
              current |-> <<>>, stats |-> NoStats, not_shown |-> 0]

format_change_message(chg, current_positions) ==
    LET sorted_positions == sorted_reverse(current_positions)
        top == Take(sorted_positions, ShownPositions)
        olds == [j \in 1..Len(Take(chg.modified, 2)) |-> chg.modified[j].old]
        news == [j \in 1..Len(Take(chg.modified, 2)) |-> chg.modified[j].new]
    IN  IF \/ UsdRaises(Take(chg.added, 3)) \/ UsdRaises(Take(chg.removed, 3))
           \/ UsdRaises(olds) \/ UsdRaises(news) \/ UsdRaises(current_positions)
        THEN [NoMessage EXCEPT !.raised = TRUE]
        ELSE [built    |-> TRUE,
              raised   |-> FALSE,
              added    |-> added_removed_section(chg.added),
              removed  |-> added_removed_section(chg.removed),
              modified |-> modified_section(chg.modified),
              current  |-> [j \in 1..Len(top) |-> format_position_display(top[j])],
              stats    |-> IF current_positions = <<>> THEN NoStats
                           ELSE [total_positions  |-> Len(current_positions),
                                 active_positions |-> Cardinality({j \in 1..Len(current_positions) :
                                     current_positions[j].status = ACTIVE}),
                                 total_value      |-> SumUsd(current_positions)],
              not_shown |-> IF Len(current_positions) > 5
                            THEN Len(current_positions) - 5 ELSE 0]

(***************************************************************************)
(* The state before the first run: lp_data/ holds no file yet.             *)
(***************************************************************************)
NoFile    == [exists |-> FALSE, positions |-> <<>>, total_count |-> 0, total_value |-> 0]
NoChanges == [raised |-> FALSE, added |-> <<>>, removed |-> <<>>, modified |-> <<>>]

MonitorStart ==
    /\ pc = "idle"
    /\ data_file = NoFile
    /\ history_file = <<>>
    /\ old_positions = <<>>
    /\ new_positions = <<>>
    /\ changes = NoChanges
    /\ i = 0
    /\ message = NoMessage
    /\ success = FALSE
    /\ ret = "unset"
    /\ fetch_fault = "none"
    /\ fetched = FALSE
    /\ persisted = FALSE
    /\ format_calls = 0
    /\ notify_calls = 0
    /\ publish_calls = 0
    /\ publish_result = "none"
    /\ file_at_start = NoFile
    /\ history_at_start = <<>>
    /\ prev_fetched = <<>>
    /\ prev_alert = "none"

DiffStart == d_old = <<>> /\ d_new = <<>> /\ d_result = [called |-> FALSE, out |-> NoChanges]
FmtStart  == f_positions = <<>> /\ f_message = NoMessage

(***************************************************************************)
(* monitor(), one step per request to the outside and per stage.  A run     *)
(* starts from "idle" or after an earlier run has returned or raised: the  *)
(* scheduler invokes the script again, on the same lp_data/.  The Dune API *)
(* answers each request with any reply or a transport error; the Telegram  *)
(* and git steps end in any of their outcomes.  history.json is keyed by   *)
(* datetime.now().isoformat() at the time of the write; the runs do not    *)
(* overlap, so each write adds a key after the ones there, and the file is *)
(* modelled as the sequence of its entries.  The snapshot's and the        *)
(* ChangeSet's own timestamp fields are left out.                          *)
(***************************************************************************)
MaxPolls == 30

RowPool ==
    { Pos(Num(1), Num(5), Num(0), Num(0), Num(100), Num(1), Num(3), ACTIVE),
      Pos(Num(1), Num(5), Num(0), Num(0), Num(150), Num(1), Num(3), ACTIVE),
      Pos(Absent, Num(5), Num(0), Num(0), Num(100), Num(1), Num(3), ACTIVE),
      Pos(Num(2), Num(5), Num(0), Num(0), Txt(<<"x">>), Num(1), Num(3), ACTIVE) }

FetchResults == SeqsUpTo(RowPool, MaxRows)

StatusReplies == {"QUERY_STATE_COMPLETED", "QUERY_STATE_FAILED", "QUERY_STATE_CANCELLED",
                  "QUERY_STATE_EXECUTING"}

\* the status loop's branch with CANCELLED forgotten
status_step_failed_only(status) ==
    IF status = "QUERY_STATE_COMPLETED" THEN "break"
    ELSE IF status = "QUERY_STATE_FAILED" THEN "return_none"
    ELSE "sleep"

\* the status loop's branch on a reply
status_step(status) ==
    IF status = "QUERY_STATE_COMPLETED" THEN "break"
    ELSE IF status \in {"QUERY_STATE_FAILED", "QUERY_STATE_CANCELLED"} THEN "return_none"
    ELSE "sleep"

\* load_previous_data() and old_data.get('positions', []): json.load gives back
\* the values json.dump wrote, ints as ints and strs as strs
load_previous_data(file) == IF file.exists THEN file.positions ELSE <<>>

new_data(positions) ==
    [exists |-> TRUE, positions |-> positions,
     total_count |-> Len(positions), total_value |-> SumUsd(positions)]

\* save_current_data with the write of latest_positions.json left out
save_history_only(data, file, history) ==
    [data_file |-> file, history_file |-> Append(history, data)]

\* save_current_data: both files after it
save_current_data(data, file, history) ==
    [data_file |-> data, history_file |-> Append(history, data)]

has_changes_added_or_removed(chg) == chg.added # <<>> \/ chg.removed # <<>>

\* any([changes['added'], changes['removed'], changes['modified']])
has_changes(chg) == chg.added # <<>> \/ chg.removed # <<>> \/ chg.modified # <<>>

\* How send_telegram_message can end: every send_message call went through; the
\* telegram package is not installed (nothing is sent); Bot() or a send raised.
NotifyOutcomes  == {"sent", "import_error", "send_error"}

\* what send_telegram_message returns
send_telegram_message(outcome) == outcome = "sent"

\* How commit_and_push_changes can end: committed and pushed; git commit found
\* nothing to commit; a checked git command failed (CalledProcessError, caught
\* inside); anything else was raised (git missing), which escapes to monitor.
PublishOutcomes == {"pushed", "nothing_to_commit", "git_failed", "other_error"}

\* monitor without the try around commit_and_push_changes
after_publish_unguarded(outcome) == IF outcome = "other_error" THEN "raised" ELSE "returned"

\* where monitor goes after the publish step: CalledProcessError is caught in
\* commit_and_push_changes, any other exception in monitor
after_publish(outcome) == "returned"

\* "return None" in execute_dune_query, then "return" in monitor; the loop's
\* counter goes with the frame of execute_dune_query.  (main then fails on
\* changes['added'] with changes = None; it writes nothing either.)
ReturnNone == pc' = "returned" /\ ret' = "None" /\ i' = 0

StartRun ==
    /\ pc \in {"idle", "returned", "raised"}
    /\ Len(history_file) < MaxHist
    /\ pc' = "execute"
    /\ old_positions' = load_previous_data(data_file)
    /\ new_positions' = <<>>
    /\ changes' = NoChanges
    /\ i' = 0
    /\ message' = NoMessage
    /\ success' = FALSE
    /\ ret' = "unset"
    /\ fetch_fault' = "none"
    /\ fetched' = FALSE
    /\ persisted' = FALSE
    /\ format_calls' = 0
    /\ notify_calls' = 0
    /\ publish_calls' = 0
    /\ publish_result' = "none"
    /\ file_at_start' = data_file
    /\ history_at_start' = history_file
    /\ prev_fetched' = IF persisted THEN new_positions ELSE prev_fetched
    /\ prev_alert' = IF ~persisted THEN prev_alert
                     ELSE IF notify_calls = 0 THEN "none"
                     ELSE IF success THEN "sent" ELSE "failed"
    /\ UNCHANGED <<data_file, history_file, dvars, fvars>>

\* requests.post(execute_url)
ExecuteOk ==
    /\ pc = "execute"
    /\ pc' = "status"
    /\ UNCHANGED <<data_file, history_file, old_positions, new_positions, changes, i,
                   message, success, ret, fetch_fault, fetched, persisted, format_calls,
                   notify_calls, publish_calls, publish_result, file_at_start,
                   history_at_start, prev_fetched, prev_alert, dvars, fvars>>

ExecuteError ==
    /\ pc = "execute"
    /\ fetch_fault' = "transport"
    /\ ReturnNone
    /\ UNCHANGED <<data_file, history_file, old_positions, new_positions, changes,
                   message, success, fetched, persisted, format_calls,
                   notify_calls, publish_calls, publish_result, file_at_start,
                   history_at_start, prev_fetched, prev_alert, dvars, fvars>>

\* one pass of "for i in range(30)" whose request is answered
PollStatus ==
    /\ pc = "status"
    /\ i < MaxPolls
    /\ \E status \in StatusReplies :
          /\ fetch_fault' = IF status \in {"QUERY_STATE_FAILED", "QUERY_STATE_CANCELLED"}
                            THEN "terminal" ELSE fetch_fault
          /\ CASE status_step(status) = "break" ->
                    pc' = "results" /\ UNCHANGED <<i, ret>>
               [] status_step(status) = "return_none" ->
                    ReturnNone
               [] OTHER ->
                    i' = i + 1 /\ UNCHANGED <<pc, ret>>
    /\ UNCHANGED <<data_file, history_file, old_positions, new_positions, changes,
                   message, success, fetched, persisted, format_calls,
                   notify_calls, publish_calls, publish_result, file_at_start,
                   history_at_start, prev_fetched, prev_alert, dvars, fvars>>

PollError ==
    /\ pc = "status"
    /\ i < MaxPolls
    /\ fetch_fault' = "transport"
    /\ ReturnNone
    /\ UNCHANGED <<data_file, history_file, old_positions, new_positions, changes,
                   message, success, fetched, persisted, format_calls,
                   notify_calls, publish_calls, publish_result, file_at_start,
                   history_at_start, prev_fetched, prev_alert, dvars, fvars>>

\* the loop's else: 30 passes without a break
PollTimeout ==
    /\ pc = "status"
    /\ i = MaxPolls
    /\ fetch_fault' = IF fetch_fault = "none" THEN "timeout" ELSE fetch_fault
    /\ ReturnNone
    /\ UNCHANGED <<data_file, history_file, old_positions, new_positions, changes,
                   message, success, fetched, persisted, format_calls,
                   notify_calls, publish_calls, publish_result, file_at_start,
                   history_at_start, prev_fetched, prev_alert, dvars, fvars>>

\* requests.get(results_url)
ResultsOk ==
    /\ pc = "results"
    /\ \E rows \in FetchResults : new_positions' = rows
    /\ fetched' = TRUE
    /\ i' = 0
    /\ pc' = "compare"
    /\ UNCHANGED <<data_file, history_file, old_positions, changes,
                   message, success, ret, fetch_fault, persisted, format_calls,
                   notify_calls, publish_calls, publish_result, file_at_start,
                   history_at_start, prev_fetched, prev_alert, dvars, fvars>>

ResultsError ==
    /\ pc = "results"
    /\ fetch_fault' = "transport"
    /\ ReturnNone
    /\ UNCHANGED <<data_file, history_file, old_positions, new_positions, changes,
                   message, success, fetched, persisted, format_calls,
                   notify_calls, publish_calls, publish_result, file_at_start,
                   history_at_start, prev_fetched, prev_alert, dvars, fvars>>

\* changes = self.compare_positions(old_positions, new_positions)
Compare ==
    /\ pc = "compare"
    /\ \E out \in compare_positions(old_positions, new_positions) :
          IF out.raised
          THEN pc' = "raised" /\ ret' = "raised" /\ UNCHANGED changes
          ELSE pc' = "save" /\ changes' = out /\ UNCHANGED ret
    /\ UNCHANGED <<data_file, history_file, old_positions, new_positions, i,
                   message, success, fetch_fault, fetched, persisted, format_calls,
                   notify_calls, publish_calls, publish_result, file_at_start,
                   history_at_start, prev_fetched, prev_alert, dvars, fvars>>

\* new_data = {...}; self.save_current_data(new_data)
Save ==
    /\ pc = "save"
    /\ IF UsdRaises(new_positions)
       THEN /\ pc' = "raised" /\ ret' = "raised"
            /\ UNCHANGED <<data_file, history_file, persisted>>
       ELSE LET saved == save_current_data(new_data(new_positions), data_file, history_file)
            IN  /\ data_file' = saved.data_file
                /\ history_file' = saved.history_file
                /\ persisted' = TRUE
                /\ pc' = "notify"
                /\ UNCHANGED ret
    /\ UNCHANGED <<old_positions, new_positions, changes, i,
                   message, success, fetch_fault, fetched, format_calls,
                   notify_calls, publish_calls, publish_result, file_at_start,
                   history_at_start, prev_fetched, prev_alert, dvars, fvars>>

\* if has_changes: format the message and hand it to send_telegram_message
Notify ==
    /\ pc = "notify"
    /\ has_changes(changes)
    /\ message' = format_change_message(changes, new_positions)
    /\ format_calls' = format_calls + 1
    /\ IF message'.raised
       THEN pc' = "raised" /\ ret' = "raised" /\ UNCHANGED <<notify_calls, success>>
       ELSE /\ notify_calls' = notify_calls + 1
            /\ \E outcome \in NotifyOutcomes : success' = send_telegram_message(outcome)
            /\ pc' = "publish"
            /\ UNCHANGED ret
    /\ UNCHANGED <<data_file, history_file, old_positions, new_positions, changes, i,
                   fetch_fault, fetched, persisted, publish_calls, publish_result,
                   file_at_start, history_at_start, prev_fetched, prev_alert, dvars, fvars>>

\* else: print("未检测到变动")
SkipNotify ==
    /\ pc = "notify"
    /\ ~has_changes(changes)
    /\ pc' = "publish"
    /\ UNCHANGED <<data_file, history_file, old_positions, new_positions, changes, i,
                   message, success, ret, fetch_fault, fetched, persisted, format_calls,
                   notify_calls, publish_calls, publish_result, file_at_start,
                   history_at_start, prev_fetched, prev_alert, dvars, fvars>>

\* try: self.commit_and_push_changes() ... return changes
Publish ==
    /\ pc = "publish"
    /\ publish_calls' = publish_calls + 1
    /\ \E outcome \in PublishOutcomes :
          /\ publish_result' = outcome
          /\ pc' = after_publish(outcome)
          /\ ret' = IF after_publish(outcome) = "returned" THEN "changes" ELSE "raised"
    /\ UNCHANGED <<data_file, history_file, old_positions, new_positions, changes, i,
                   message, success, fetch_fault, fetched, persisted, format_calls,
                   notify_calls, file_at_start, history_at_start, prev_fetched,
                   prev_alert, dvars, fvars>>

Init == MonitorStart /\ DiffStart /\ FmtStart

Next ==
    \/ StartRun
    \/ ExecuteOk
    \/ ExecuteError
    \/ PollStatus
    \/ PollError
    \/ PollTimeout
    \/ ResultsOk
    \/ ResultsError
    \/ Compare
    \/ Save
    \/ Notify
    \/ SkipNotify
    \/ Publish

Spec == Init /\ [][Next]_vars

(***************************************************************************)
(* compare_positions on drawn inputs.  KeyPool varies the key (an int, the *)
(* same key as a str, another key, no key) and one fingerprint field;      *)
(* FieldPool holds one token and varies every other field, a fingerprint   *)
(* field also in type only (5 and "5").                                    *)
(***************************************************************************)
Sentinel == Txt(<<"1", "e", "+", "9">>)

KeyPool ==
    { Pos(tid, Num(5), Num(0), Num(0), usd, Num(1), Num(3), ACTIVE) :
        tid \in {Num(1), Txt(<<"1">>), Num(2)}, usd \in {Num(100), Num(150)} }
    \cup { Pos(Absent, Num(5), Num(0), Num(0), Num(100), Num(1), Num(3), ACTIVE) }

FieldPool ==
    { Pos(Num(1), liq, a0, a1, usd, lo, up, st) :
        liq \in {Num(5), Txt(<<"5">>), Num(6)},
        a0 \in {Num(0), Num(1)}, a1 \in {Num(0), Num(1)},
        usd \in {Num(100), Num(150)},
        lo \in {Num(1), Num(2)}, up \in {Num(3), Sentinel},
        st \in {ACTIVE, OUT_OF_RANGE} }

InitDiff ==
    /\ MonitorStart
    /\ FmtStart
    /\ d_result = [called |-> FALSE, out |-> NoChanges]
    /\ \/ /\ d_old \in SeqsUpTo(KeyPool, MaxDiffLen)
          /\ d_new \in SeqsUpTo(KeyPool, MaxDiffLen)
       \/ \E p \in FieldPool, q \in FieldPool : d_old = <<p>> /\ d_new = <<q>>

CallCompare ==
    /\ ~d_result.called
    /\ \E out \in compare_positions(d_old, d_new) :
          d_result' = [called |-> TRUE, out |-> out]
    /\ UNCHANGED <<d_old, d_new, mvars, fvars>>

NextDiff == CallCompare

SpecDiff == InitDiff /\ [][NextDiff]_vars


(***************************************************************************)
(* format_change_message on drawn current positions: the upper price is a  *)
(* number, a number written as a str, the unbounded sentinel, or a str     *)
(* that is no number.                                                      *)
(***************************************************************************)
PricePool ==
    { Pos(Num(1), Num(5), Num(0), Num(0), Num(100), Num(1), up, ACTIVE) :
        up \in {Num(0), Num(5), Txt(<<"1", "0">>), Sentinel, Txt(<<"x">>)} }

InitFmt ==
    /\ MonitorStart
    /\ DiffStart
    /\ f_message = NoMessage
    /\ f_positions \in SeqsUpTo(PricePool, MaxFmtLen)

CallFormat ==
    /\ ~f_message.built
    /\ f_message' = format_change_message(NoChanges, f_positions)
    /\ UNCHANGED <<f_positions, mvars, dvars>>

NextFmt == CallFormat

SpecFmt == InitFmt /\ [][NextFmt]_vars

(***************************************************************************)
(* Claims about compare_positions, checked under SpecDiff.                 *)
(***************************************************************************)
StrKey(p)      == PyStr(p.tokenId)
StrKeys(seq)   == {StrKey(seq[j]) : j \in 1..Len(seq)}
Records(seq)   == {seq[j] : j \in 1..Len(seq)}
\* the records that are the last of their key in seq
LastOfKey(seq) == {seq[j] : j \in {x \in 1..Len(seq) :
                      \A y \in (x + 1)..Len(seq) : StrKey(seq[y]) # StrKey(seq[x])}}
WellFormed(seq) == \A j \in 1..Len(seq) : seq[j].tokenId.k # "absent"
NoRepeat(seq)   == \A a, b \in 1..Len(seq) : seq[a] = seq[b] => a = b
Returned        == d_result.called /\ WellFormed(d_old) /\ WellFormed(d_new)

ModifiedPairs(olds, news) ==
    {[old |-> o, new |-> n] : o \in olds, n \in news} \cap
    {pr \in [old : olds, new : news] :
        /\ StrKey(pr.old) = StrKey(pr.new)
        /\ calculate_position_hash(pr.old) # calculate_position_hash(pr.new)}

PartitionKeys(out) ==
    [added    |-> [j \in 1..Len(out.added)    |-> StrKey(out.added[j])],
     removed  |-> [j \in 1..Len(out.removed)  |-> StrKey(out.removed[j])],
     modified |-> [j \in 1..Len(out.modified) |-> StrKey(out.modified[j].new)]]

KeysApart(out) ==
    LET pk == PartitionKeys(out)
    IN  /\ NoRepeat(pk.added) /\ NoRepeat(pk.removed) /\ NoRepeat(pk.modified)
        /\ Records(pk.added) \cap Records(pk.removed) = {}
        /\ Records(pk.added) \cap Records(pk.modified) = {}
        /\ Records(pk.removed) \cap Records(pk.modified) = {}
        /\ \A j \in 1..Len(out.modified) :
              StrKey(out.modified[j].old) = StrKey(out.modified[j].new)

\* C1 as stated: added is every new-side record whose key old lacks, removed
\* every old-side record whose key new lacks, modified one pair per common key
\* with differing fingerprints, and no key twice.
C1_AsStated ==
    Returned =>
        LET out == d_result.out
        IN  /\ ~out.raised
            /\ Records(out.added) = {p \in Records(d_new) : StrKey(p) \notin StrKeys(d_old)}
            /\ Records(out.removed) = {p \in Records(d_old) : StrKey(p) \notin StrKeys(d_new)}
            /\ Records(out.modified) = ModifiedPairs(LastOfKey(d_old), LastOfKey(d_new))
            /\ KeysApart(out)

\* C1 (amended): both sides are keyed by str(tokenId), a later record replacing
\* an earlier one with the same key; added holds exactly the last new-side record
\* of each key absent from old, removed the last old-side record of each key
\* absent from new, modified one {old, new} pair of those records per common key
\* whose fingerprints differ; a common key with equal fingerprints is in no
\* partition, and no key is in two partitions or twice in one.
C1_Partitions ==
    Returned =>
        LET out == d_result.out
        IN  /\ ~out.raised
            /\ Records(out.added) = {p \in LastOfKey(d_new) : StrKey(p) \notin StrKeys(d_old)}
            /\ Records(out.removed) = {p \in LastOfKey(d_old) : StrKey(p) \notin StrKeys(d_new)}
            /\ Records(out.modified) = ModifiedPairs(LastOfKey(d_old), LastOfKey(d_new))
            /\ KeysApart(out)

\* An int key on one side and the same key as a str on the other; a repeated key.
C1_Witness ==
    /\ Returned
    /\ Len(d_new) = 2 /\ StrKey(d_new[1]) = StrKey(d_new[2]) /\ d_new[1] # d_new[2]
    /\ Len(d_old) = 1 /\ StrKey(d_old[1]) = StrKey(d_new[2])
    /\ d_old[1].tokenId # d_new[2].tokenId
    /\ Len(d_result.out.modified) = 1

FingerprintFields == {"liquidity_L", "amount0", "amount1", "usd_value"}
OtherFields       == {"p_lower_uset", "p_upper_uset", "status"}
StrForm(p, f)     == PyStr(Get(p, f, Txt(<<>>)))
OnePair           == Returned /\ Len(d_old) = 1 /\ Len(d_new) = 1
                       /\ StrKey(d_old[1]) = StrKey(d_new[1])
InModified        == d_result.out.modified = <<[old |-> d_old[1], new |-> d_new[1]]>>

\* C6 as stated: a token in both snapshots one of whose liquidity, amount0,
\* amount1, usd_value differs (the other fields equal) is in modified; one that
\* differs only in price_lower, price_upper, status is not.
C6_AsStated ==
    OnePair =>
        LET differs == {f \in FingerprintFields \cup OtherFields : d_old[1][f] # d_new[1][f]}
        IN  /\ (Cardinality(differs) = 1 /\ differs \subseteq FingerprintFields) => InModified
            /\ differs \subseteq OtherFields => d_result.out.modified = <<>>

\* C6 (amended): a token in both snapshots is in modified when the string form
\* of exactly one of liquidity, amount0, amount1, usd_value differs between the
\* old and the new record, and is not in modified when the string forms of all
\* four are equal, whatever else differs.
C6_Sensitivity ==
    OnePair =>
        LET differs == {f \in FingerprintFields : StrForm(d_old[1], f) # StrForm(d_new[1], f)}
        IN  /\ Cardinality(differs) = 1 => InModified
            /\ differs = {} => d_result.out.modified = <<>>

\* usd_value alone changed, and the token is reported.
C6_Witness ==
    /\ OnePair
    /\ d_old[1].usd_value # d_new[1].usd_value
    /\ \A f \in (FingerprintFields \cup OtherFields) \ {"usd_value"} : d_old[1][f] = d_new[1][f]
    /\ InModified

WithTokenId(seq) == SelectSeq(seq, LAMBDA p : p.tokenId.k # "absent")

\* C7: a record without token_id is skipped: the diff does not abort and returns
\* what it returns for the inputs without such records.
C7_SkipsMalformed ==
    (d_result.called /\ ~(WellFormed(d_old) /\ WellFormed(d_new))) =>
        /\ ~d_result.out.raised
        /\ d_result.out \in compare_positions(WithTokenId(d_old), WithTokenId(d_new))


(***************************************************************************)
(* Claims about format_change_message, checked under SpecFmt.              *)
(***************************************************************************)
\* How the claim ranks an upper price: the unbounded sentinel above every
\* number, a number by its value, a str that is no number as 0.
IsUnbounded(p)   == HasPlus(p.p_upper_uset)
IsUnparseable(p) == ~IsUnbounded(p) /\ ~PyFloat(p.p_upper_uset).ok
PriceValue(p)    == IF IsUnparseable(p) THEN 0 ELSE PyFloat(p.p_upper_uset).val
NotBelow(p, q)   == IsUnbounded(p) \/ (~IsUnbounded(q) /\ PriceValue(p) >= PriceValue(q))
Count(seq, r)    == Cardinality({j \in 1..Len(seq) : seq[j] = r})
RenderedRows     == [j \in 1..Len(f_message.current) |-> f_message.current[j].row]

\* C9: the current-state section renders the first min(5, n) positions of the
\* descending order of price_upper, the unbounded sentinel before every number
\* and an unparseable price as 0: the rendered rows are in that order, are rows
\* of the input, and no row left out ranks above a rendered one.
C9_TopFiveDescending ==
    f_message.built =>
        LET shown == RenderedRows
        IN  /\ Len(shown) = Min(5, Len(f_positions))
            /\ \A a, b \in 1..Len(shown) : a < b => NotBelow(shown[a], shown[b])
            /\ \A r \in Records(f_positions) \cup Records(shown) :
                  /\ Count(shown, r) <= Count(f_positions, r)
                  /\ Count(shown, r) < Count(f_positions, r) =>
                        \A a \in 1..Len(shown) : NotBelow(shown[a], r)

\* Six positions, the sentinel last in the input and first in the message, an
\* unparseable price among them and left out.
C9_Witness ==
    /\ f_message.built
    /\ Len(f_positions) = 6
    /\ IsUnbounded(f_positions[6]) /\ ~IsUnbounded(f_positions[1])
    /\ IsUnparseable(f_positions[1])
    /\ \A j \in 2..5 : PriceValue(f_positions[j]) > 0
    /\ Len(f_message.current) = 5
    /\ IsUnbounded(f_message.current[1].row)
    /\ \A j \in 1..5 : ~IsUnparseable(f_message.current[j].row)

(***************************************************************************)
(* Claims about monitor(), checked under Spec.                             *)
(***************************************************************************)
RunOver      == pc \in {"returned", "raised"}
FilesAsAtStart == data_file = file_at_start /\ history_file = history_at_start
NonEmpty(chg) == Len(chg.added) + Len(chg.removed) + Len(chg.modified) > 0

\* C2: once the fetch has failed in a run (a transport error, a FAILED or
\* CANCELLED status, 30 polls without COMPLETED), the run persists nothing,
\* sends no notification and attempts no publish: both files stay as they were
\* when the run started, and the run ends returning nothing.
C2_FetchFailureAborts ==
    fetch_fault # "none" =>
        /\ FilesAsAtStart
        /\ ~persisted
        /\ format_calls = 0 /\ notify_calls = 0 /\ publish_calls = 0
        /\ pc = "returned" /\ ret = "None"

\* A run on top of a stored snapshot ends after 30 polls without COMPLETED.
C2_Witness ==
    /\ fetch_fault = "timeout"
    /\ pc = "returned"
    /\ data_file.exists
    /\ data_file = file_at_start

\* C3: a run whose fetch returned rows runs the diff and the persistence: when
\* it is over, latest_positions.json holds the fetched rows and history.json
\* has one more entry, holding the same snapshot.
C3_FetchedIsPersisted ==
    (fetched /\ RunOver) =>
        /\ data_file.exists
        /\ data_file.positions = new_positions
        /\ history_file = Append(history_at_start, data_file)

C5_PublishBestEffort ==
    /\ publish_calls \in {0, 1}
    /\ publish_calls = 1 => persisted
    /\ persisted => pc \in {"notify", "publish", "returned"}
    /\ persisted /\ pc = "returned" =>
          /\ publish_calls = 1
          /\ ret = "changes"
          /\ data_file.positions = new_positions
          /\ history_file = Append(history_at_start, data_file)

\* The notification failed and git raised; the run still returned.
C5_Witness ==
    /\ pc = "returned" /\ persisted
    /\ notify_calls = 1 /\ ~success
    /\ publish_result = "other_error"
    /\ ret = "changes"

Snapshots == {history_file[j] : j \in 1..Len(history_file)}
              \cup (IF data_file.exists THEN {data_file} ELSE {})

\* the rows of seq without those that a later row with the same key replaces
RECURSIVE LastWins(_)
LastWins(seq) ==
    IF seq = <<>> THEN <<>>
    ELSE IF StrKey(Head(seq)) \in StrKeys(Tail(seq)) THEN LastWins(Tail(seq))
    ELSE <<Head(seq)>> \o LastWins(Tail(seq))

\* C8: in every persisted snapshot the token_ids are unique: of the fetched
\* rows with one token_id only the last is kept, and total_count and
\* total_value are those of the rows kept.
C8_SnapshotKeysUnique ==
    /\ \A snap \in Snapshots :
          /\ \A a, b \in 1..Len(snap.positions) :
                StrKey(snap.positions[a]) = StrKey(snap.positions[b]) => a = b
          /\ snap.total_count = Len(LastWins(snap.positions))
          /\ snap.total_value = SumUsd(LastWins(snap.positions))
    /\ persisted => data_file.positions = LastWins(new_positions)

\* C10: the ChangeSet of a run is the diff of the rows fetched by the latest
\* earlier run that persisted (none: of no rows) against the rows it fetched:
\* a run that fetches the same rows again computes an empty ChangeSet and
\* sends nothing, whether or not the earlier notification was delivered.
C10_ReportedOnce ==
    (pc \in {"save", "notify", "publish", "returned"} /\ fetched) =>
        /\ changes \in compare_positions(prev_fetched, new_positions)
        /\ new_positions = prev_fetched => (~NonEmpty(changes) /\ notify_calls = 0)

\* The notification of a change failed; the next run fetches the same rows,
\* finds no change and sends nothing.
C10_Witness ==
    /\ pc = "returned" /\ persisted
    /\ prev_alert = "failed"
    /\ prev_fetched # <<>>
    /\ new_positions = prev_fetched
    /\ notify_calls = 0

====
